---- MODULE Spec2Model ----
\* Model of the vulncost extension's orchestration layer (src/src/extension.js):
\* document classification, the per-path session registry, the routing of
\* session events to the rendering collaborators, the manifest watchers and
\* the user commands.
EXTENDS Integers, Sequences, FiniteSets, TLC

VARIABLES
    isActive,          \* module-level flag, extension.js:23
    packageWatcher,    \* set of manifest paths that own a watcher, extension.js:24
    emitters,          \* fileName -> generation of the registered session, 0 = none
    sessions,          \* fileName -> the sessions getImports returned for it, in creation order
    watches,           \* number of createFileSystemWatcher calls made
    diagnostics,       \* paths that own entries in the 'snyk-vulns' collection
    docs,              \* the host's documents: fileName -> languageId, isDirty
    activeTextEditor,  \* fileName of window.activeTextEditor, or NoEditor
    configuration,     \* the 'vulnCost' configuration section
    trace,             \* the calls made by the handler that has just run, in order;
                       \* empty once control is back in the event loop
    threw,             \* the handler that has just run ended with an uncaught exception
    dirtyProcessed,    \* paths whose last processing hit the dirty-infrastructure branch
    classified,        \* last (document, configuration, result) given to language()
    authed,            \* isAuthed(): a Snyk token is stored
    pendingAuth        \* the sign-in flows awaiting their callback; for each one,
                       \* the value isActive had when vulnCost.signIn was called

vars == <<isActive, packageWatcher, emitters, sessions, watches,
          diagnostics, docs, activeTextEditor, configuration,
          trace, threw, dirtyProcessed, classified, authed, pendingAuth>>

----------------------------------------------------------------------------
\* Bounds

MaxSessions == 2
MaxCalculated == 1
MaxIaC == 1
MaxPending == 1

----------------------------------------------------------------------------
\* Language constants exported by ./getImports, and `undefined`

TYPESCRIPT == "TYPESCRIPT"
JAVASCRIPT == "JAVASCRIPT"
HTML == "HTML"
PJSON == "PJSON"
YAML == "YAML"
Undefined == "undefined"

NoEditor == <<>>
NoDocument == [fileName |-> <<>>, languageId |-> Undefined, isDirty |-> FALSE]

\* A file name is the sequence of its pieces; the last piece is the extension.
\* a.js is a script by its extension; the category of deploy.cfg depends on
\* its language mode alone.
A_JS == <<"a", ".js">>
DEPLOY_CFG == <<"deploy", ".cfg">>
FileNames == {A_JS, DEPLOY_CFG}

ModeIds == {"yaml", "plaintext"}
ModeFiles == {DEPLOY_CFG}
\* the documents the model edits without saving
DirtyFiles == {DEPLOY_CFG}

\* the manifests a session may report
ManifestPaths ==
    {<<"package", ".json">>, <<"lib/", "package", ".json">>, <<"app/", "package", ".json">>}
\* the manifest reported while the whole program runs
RootManifest == {<<"package", ".json">>}

\* The configured patterns: each pattern is an end-anchored extension regex
\* (such as \.tsx?$), given by the set of extensions it accepts.
DefaultConfiguration ==
    [typescriptExtensions |-> << {".ts", ".tsx"} >>,
     javascriptExtensions |-> << {".js", ".jsx"} >>,
     htmlExtensions |-> << {".htm", ".html"} >>,
     infrastructureAsCodeExtensions |-> << {".yaml", ".yml"} >>]

----------------------------------------------------------------------------
\* language(): extension.js:224-263

Last(s) == s[Len(s)]

\* new RegExp(patterns.join('|')).test(fileName); an empty list joins to the
\* empty pattern, which matches every string.
RegExpTest(patterns, fileName) ==
    IF Len(patterns) = 0 THEN TRUE
    ELSE \E i \in 1..Len(patterns) : Last(fileName) \in patterns[i]

\* fileName.endsWith('package.json')
EndsWithPackageJson(fileName) ==
    /\ Len(fileName) >= 2
    /\ fileName[Len(fileName) - 1] = "package"
    /\ fileName[Len(fileName)] = ".json"

IsTypescript(cfg, document) ==
    \/ document.languageId = "typescript"
    \/ document.languageId = "typescriptreact"
    \/ RegExpTest(cfg.typescriptExtensions, document.fileName)

IsJavascript(cfg, document) ==
    \/ document.languageId = "javascript"
    \/ document.languageId = "javascriptreact"
    \/ RegExpTest(cfg.javascriptExtensions, document.fileName)

IsHtml(cfg, document) ==
    \/ document.languageId = "html"
    \/ RegExpTest(cfg.htmlExtensions, document.fileName)

IsPjson(cfg, document) ==
    /\ document.languageId = "json"
    /\ EndsWithPackageJson(document.fileName)

IsYaml(cfg, document) ==
    \/ document.languageId = "yaml"
    \/ RegExpTest(cfg.infrastructureAsCodeExtensions, document.fileName)

languageJsFirst(cfg, document) ==
    IF IsJavascript(cfg, document) THEN JAVASCRIPT
    ELSE IF IsTypescript(cfg, document) THEN TYPESCRIPT
    ELSE IF IsHtml(cfg, document) THEN HTML
    ELSE IF IsPjson(cfg, document) THEN PJSON
    ELSE IF IsYaml(cfg, document) THEN YAML
    ELSE Undefined

language(cfg, document) ==
    IF IsTypescript(cfg, document) THEN TYPESCRIPT
    ELSE IF IsJavascript(cfg, document) THEN JAVASCRIPT
    ELSE IF IsHtml(cfg, document) THEN HTML
    ELSE IF IsPjson(cfg, document) THEN PJSON
    ELSE IF IsYaml(cfg, document) THEN YAML
    ELSE Undefined

----------------------------------------------------------------------------
\* The mutable program state as one record, so that a handler that calls
\* another handler is the composition of the two.

NoClassification == [document |-> NoDocument, cfg |-> DefaultConfiguration, result |-> Undefined]

State ==
    [isActive |-> isActive, packageWatcher |-> packageWatcher,
     emitters |-> emitters, sessions |-> sessions, watches |-> watches,
     diagnostics |-> diagnostics,
     trace |-> <<>>, threw |-> FALSE, dirtyProcessed |-> dirtyProcessed,
     authed |-> authed, pendingAuth |-> pendingAuth]

\* One call: the callee, the path and payload it is given, whether the
\* "final" argument is set, and the session whose listener made it (0 when
\* the call is not made from a listener).
Call(op, f, arg, final, sid) ==
    [op |-> op, f |-> f, arg |-> arg, final |-> final, sid |-> sid, path |-> <<>>]

Log(st, op, f, arg, sid) ==
    [st EXCEPT !.trace = Append(@, Call(op, f, arg, FALSE, sid))]

\* The host invokes a handler
Enter(st, handler) == Log(st, "enter", <<>>, handler, 0)

\* The host invokes an editor-event handler with the event's document
EnterOn(st, handler, f) == Log(st, "enter", f, handler, 0)

\* An uncaught exception ends the handler
Throw(st) == [st EXCEPT !.threw = TRUE]

Document(f) ==
    [fileName |-> f, languageId |-> docs[f].languageId, isDirty |-> docs[f].isDirty]

\* getImports(fileName, text, language): a fresh event emitter
NewSession(fileName, lang) ==
    [fileName |-> fileName, lang |-> lang, attached |-> TRUE,
     phase |-> "created", ncalc |-> 0, niac |-> 0, routed |-> <<>>]

----------------------------------------------------------------------------
\* processActiveFile(): extension.js:182-222

\* An emitter without listeners: what its engine has emitted so far is no
\* longer followed, it may emit any event from now on.
Detached(sess) == [NewSession(sess.fileName, sess.lang) EXCEPT !.attached = FALSE, !.phase = "any"]

\* emitters[fileName].removeAllListeners(), when a session is registered
Detach(st, fileName) ==
    IF st.emitters[fileName] # 0
    THEN Log([st EXCEPT !.sessions[fileName][st.emitters[fileName]] = Detached(@)],
             "removeAllListeners", fileName, "", st.emitters[fileName])
    ELSE st

\* emitters[fileName] = getImports(...), then the .on(...) calls
Register(st, fileName, lang) ==
    LET sid == Len(st.sessions[fileName]) + 1
        s1 == [st EXCEPT !.sessions[fileName] = Append(@, NewSession(fileName, lang)),
                         !.emitters[fileName] = sid]
        s2 == Log(s1, "getImports", fileName, lang, sid)
    IN  Log(s2, "on", fileName, lang, sid)

processActiveFileNoDetach(st, document) ==
    LET lang == language(configuration, document)
        s0 == Log([st EXCEPT !.dirtyProcessed =
                             IF document.isDirty THEN @ ELSE @ \ {document.fileName}],
                  "processActiveFile", document.fileName, "", 0)
    IN  IF document = NoDocument \/ lang = Undefined THEN s0
        ELSE IF lang = YAML /\ document.isDirty
        THEN Log([s0 EXCEPT !.diagnostics = {},
                            !.dirtyProcessed = @ \cup {document.fileName}],
                 "diagnostics.clear", document.fileName, "", 0)
        ELSE Register(s0, document.fileName, lang)

processActiveFileDetachesAll(st, document) ==
    LET lang == language(configuration, document)
        s0 == Log([st EXCEPT !.dirtyProcessed =
                             IF document.isDirty THEN @ ELSE @ \ {document.fileName}],
                  "processActiveFile", document.fileName, "", 0)
    IN  IF document = NoDocument \/ lang = Undefined THEN s0
        ELSE IF lang = YAML /\ document.isDirty
        THEN Log([s0 EXCEPT !.diagnostics = {},
                            !.dirtyProcessed = @ \cup {document.fileName}],
                 "diagnostics.clear", document.fileName, "", 0)
        ELSE Register(Detach(Detach(s0, A_JS), DEPLOY_CFG), document.fileName, lang)

processActiveFile(st, document) ==
    LET lang == language(configuration, document)
        s0 == Log([st EXCEPT !.dirtyProcessed =
                             IF document.isDirty THEN @ ELSE @ \ {document.fileName}],
                  "processActiveFile", document.fileName, "", 0)
    IN  IF document = NoDocument \/ lang = Undefined THEN s0
        ELSE IF lang = YAML /\ document.isDirty
        THEN Log([s0 EXCEPT !.diagnostics = {},
                            !.dirtyProcessed = @ \cup {document.fileName}],
                 "diagnostics.clear", document.fileName, "", 0)
        ELSE Register(Detach(s0, document.fileName), document.fileName, lang)

----------------------------------------------------------------------------
\* createPackageWatcher(): extension.js:159-179

createPackageWatcherNoGuard(st, fileName) ==
    Log([st EXCEPT !.watches = @ + 1,
                   !.packageWatcher = @ \cup {fileName}],
        "createFileSystemWatcher", fileName, "", 0)

createPackageWatcher(st, fileName) ==
    IF fileName \in st.packageWatcher
    THEN Log(st, "console.log", fileName, "watching already", 0)
    ELSE Log([st EXCEPT !.watches = @ + 1,
                        !.packageWatcher = @ \cup {fileName}],
             "createFileSystemWatcher", fileName, "", 0)

----------------------------------------------------------------------------
\* The listeners processActiveFile attaches: extension.js:200-220

\* A call made by a listener of session sid: kept in the handler's trace and
\* in the session's own history.
Route(st, f, sid, op, arg, final) ==
    LET c == Call(op, f, arg, final, sid)
    IN  [st EXCEPT !.trace = Append(@, c),
                   !.sessions[f][sid].routed = Append(@, c)]

onErrorDetaches(st, f, sid) ==
    Detach(Log(st, "logger.log", f, "vulnCost error", sid), f)

onError(st, f, sid) == Log(st, "logger.log", f, "vulnCost error", sid)

onCalculated(st, f, sid, packageInfo) ==
    Route(st, f, sid, "calculated", packageInfo, FALSE)

onStart(st, f, sid, packages) == Route(st, f, sid, "flushDecorations", packages, FALSE)

onDoneDiagnosticsFirst(st, f, sid, packages) ==
    LET s1 == [Route(st, f, sid, "refreshDiagnostics", packages, FALSE)
                  EXCEPT !.diagnostics = @ \cup {f}]
    IN  Route(s1, f, sid, "flushDecorations", packages, TRUE)

onDone(st, f, sid, packages) ==
    LET s1 == Route(st, f, sid, "flushDecorations", packages, TRUE)
    IN  [Route(s1, f, sid, "refreshDiagnostics", packages, FALSE)
            EXCEPT !.diagnostics = @ \cup {f}]

onStartIaC(st, f, sid) ==
    LET s1 == [Route(st, f, sid, "diagnostics.clear", "", FALSE)
                  EXCEPT !.diagnostics = {}]
    IN  Route(s1, f, sid, "flushIaCDecorations", "", FALSE)

onCalculatedIaC(st, f, sid, issue) ==
    [Route(st, f, sid, "calculatedIaC", issue, FALSE)
        EXCEPT !.diagnostics = @ \cup {f}]

DispatchDropsPackage(st, f, sid, ev, arg, path) ==
    LET sess == st.sessions[f][sid] IN
    IF ~sess.attached THEN st
    ELSE IF ev = "error" THEN onError(st, f, sid)
    ELSE IF sess.lang # YAML THEN
        CASE ev = "calculated" -> onCalculated(st, f, sid, arg)
          [] ev = "start" -> onStart(st, f, sid, arg)
          [] ev = "done" -> onDone(st, f, sid, arg)
          [] OTHER -> st
    ELSE
        CASE ev = "start" -> onStartIaC(st, f, sid)
          [] ev = "calculatedIaC" -> onCalculatedIaC(st, f, sid, arg)
          [] OTHER -> st

\* emitter.emit(ev, ...): the listeners attached for ev run, in order
Dispatch(st, f, sid, ev, arg, path) ==
    LET sess == st.sessions[f][sid] IN
    IF ~sess.attached THEN st
    ELSE IF ev = "error" THEN onError(st, f, sid)
    ELSE IF sess.lang # YAML THEN
        CASE ev = "package" -> createPackageWatcher(st, path)
          [] ev = "calculated" -> onCalculated(st, f, sid, arg)
          [] ev = "start" -> onStart(st, f, sid, arg)
          [] ev = "done" -> onDone(st, f, sid, arg)
          [] OTHER -> st
    ELSE
        CASE ev = "start" -> onStartIaC(st, f, sid)
          [] ev = "calculatedIaC" -> onCalculatedIaC(st, f, sid, arg)
          [] OTHER -> st

----------------------------------------------------------------------------
\* The commands: extension.js:67-97

clearPackageCache(st) == Log(st, "clearPackageCache", <<>>, "", 0)

clearShown(st) == Log(st, "clearShown", <<>>, "", 0)

clearDecorations(st) == Log(st, "clearDecorations", <<>>, "", 0)

vulnCost_checkNoClearShown(st) ==
    LET s1 == clearPackageCache(Enter(st, "vulnCost.check"))
    IN  IF activeTextEditor = NoEditor THEN Throw(s1)
        ELSE processActiveFile(s1, Document(activeTextEditor))

vulnCost_check(st) ==
    LET s1 == clearShown(clearPackageCache(Enter(st, "vulnCost.check")))
    IN  IF activeTextEditor = NoEditor THEN Throw(s1)
        ELSE processActiveFile(s1, Document(activeTextEditor))

vulnCost_toggleClearsCache(st) ==
    LET s1 == Log([Enter(st, "vulnCost.toggle") EXCEPT !.isActive = ~@],
                  "statistics.send", <<>>, "vulnCost.toggle", 0)
    IN  IF s1.isActive /\ activeTextEditor # NoEditor
        THEN vulnCost_check(s1)
        ELSE clearDecorations(Log(s1, "deactivate", <<>>, "", 0))

vulnCost_toggle(st) ==
    LET s1 == Log([Enter(st, "vulnCost.toggle") EXCEPT !.isActive = ~@],
                  "statistics.send", <<>>, "vulnCost.toggle", 0)
    IN  IF s1.isActive /\ activeTextEditor # NoEditor
        THEN processActiveFile(s1, Document(activeTextEditor))
        ELSE clearDecorations(Log(s1, "deactivate", <<>>, "", 0))

\* vuln is Undefined or the name of an item; reading vuln.packageName of
\* undefined raises a TypeError before anything else runs.
vulnCost_showOutput(st, vuln) ==
    LET s0 == Enter(st, "vulnCost.showOutput") IN
    IF vuln = Undefined THEN Throw(s0)
    ELSE LET s1 == Log(s0, "statistics.send", <<>>, "vulnCost.showOutput", 0)
         IN  IF vuln = Undefined THEN Log(s1, "logger.show", <<>>, "", 0)
             ELSE Log(s1, "logger.flushWith", <<>>, vuln, 0)

\* vulnCost.signOut: extension.js:99-108
vulnCost_signOut(st) ==
    LET s1 == Log(Enter(st, "vulnCost.signOut"), "statistics.send", <<>>, "vulnCost.signOut", 0)
        s2 == Log(s1, "showInformationMessage", <<>>, "Removing auth token", 0)
    IN  Log([s2 EXCEPT !.authed = FALSE], "clearToken", <<>>, "", 0)

\* vulnCost.signIn: extension.js:110-141, up to the openExternal call; the
\* flow then waits for the browser and for authenticate(token).
vulnCost_signIn(st) ==
    LET s0 == Enter(st, "vulnCost.signIn") IN
    IF s0.authed
    THEN Log(s0, "showInformationMessage", <<>>, "already connected", 0)
    ELSE LET s1 == Log(s0, "statistics.send", <<>>, "vulnCost.signIn", 0)
         IN  Log([s1 EXCEPT !.pendingAuth = Append(@, s1.isActive)],
                 "openExternal", <<>>, "login", 0)

\* vulnCost.openVulnPage: extension.js:143-150
vulnCost_openVulnPage(st, pkg) ==
    LET s1 == Log(Enter(st, "vulnCost.openVulnPage"), "statistics.send", <<>>,
                  "vulnCost.openVulnPage", 0)
    IN  Log(s1, "openExternal", <<>>, pkg, 0)

RemoveAt(q, i) == [k \in 1..(Len(q) - 1) |-> IF k < i THEN q[k] ELSE q[k + 1]]

\* The flow i, as the callbacks see it: which state the pipeline was in when
\* the sign-in was requested.
FlowEntered(st, i, callback) ==
    Log(Enter([st EXCEPT !.pendingAuth = RemoveAt(@, i)], callback),
        "flow", <<>>,
        IF st.pendingAuth[i] THEN "requested while Active" ELSE "requested while Suppressed", 0)

\* authenticate(token).then(...): extension.js:124-134
authenticateThenAlwaysRechecks(st, i) ==
    LET s1 == Log([FlowEntered(st, i, "authenticate.then") EXCEPT !.authed = TRUE],
                  "setToken", <<>>, "", 0)
        s2 == Log(s1, "showInformationMessage", <<>>, "now connected", 0)
    IN  IF activeTextEditor # NoEditor
        THEN vulnCost_check(Log(s2, "executeCommand", <<>>, "vulnCost.check", 0))
        ELSE s2

authenticateThen(st, i) ==
    LET s1 == Log([FlowEntered(st, i, "authenticate.then") EXCEPT !.authed = TRUE],
                  "setToken", <<>>, "", 0)
        s2 == Log(s1, "showInformationMessage", <<>>, "now connected", 0)
    IN  IF s2.isActive /\ activeTextEditor # NoEditor
        THEN vulnCost_check(Log(s2, "executeCommand", <<>>, "vulnCost.check", 0))
        ELSE s2

\* authenticate(token) ... .catch(...): extension.js:135-138
authenticateCatch(st, i) ==
    LET s1 == Log(FlowEntered(st, i, "authenticate.catch"), "logger.log", <<>>, "e.stack", 0)
    IN  Log(s1, "showErrorMessage", <<>>, "e.message", 0)

\* watcher.onDidChange callback: extension.js:167-176.  executeCommand runs
\* the locally registered command handler.
onDidChangeIgnoresActive(st) ==
    LET s1 == clearShown(clearPackageCache(Log(Enter(st, "watcher.onDidChange"),
                             "logger.log", <<>>, "package.json change detected", 0)))
    IN  IF activeTextEditor # NoEditor
        THEN vulnCost_check(Log(s1, "executeCommand", <<>>, "vulnCost.check", 0))
        ELSE s1

onDidChange(st) ==
    LET s1 == clearShown(clearPackageCache(Log(Enter(st, "watcher.onDidChange"),
                             "logger.log", <<>>, "package.json change detected", 0)))
    IN  IF s1.isActive /\ activeTextEditor # NoEditor
        THEN vulnCost_check(Log(s1, "executeCommand", <<>>, "vulnCost.check", 0))
        ELSE s1

----------------------------------------------------------------------------
\* Actions

RECURSIVE SessionCount(_, _)
SessionCount(ss, F) ==
    IF F = {} THEN 0
    ELSE LET f == CHOOSE x \in F : TRUE
         IN  Len(ss[f]) + SessionCount(ss, F \ {f})

\* One handler runs to completion, from the idle event loop
Apply(st) ==
    /\ trace = <<>> /\ ~threw
    /\ SessionCount(st.sessions, FileNames) <= MaxSessions
    /\ isActive' = st.isActive
    /\ packageWatcher' = st.packageWatcher
    /\ emitters' = st.emitters
    /\ sessions' = st.sessions
    /\ watches' = st.watches
    /\ diagnostics' = st.diagnostics
    /\ trace' = st.trace
    /\ threw' = st.threw
    /\ dirtyProcessed' = st.dirtyProcessed
    /\ Len(st.pendingAuth) <= MaxPending
    /\ authed' = st.authed
    /\ pendingAuth' = st.pendingAuth

InitialDocs ==
    [f \in FileNames |->
        [languageId |-> IF f = A_JS THEN "javascript" ELSE "yaml",
         isDirty |-> FALSE]]

\* Module initialisation (extension.js:23-24, 181) followed by activate(),
\* which processes the document of the editor that is open, if any
\* (extension.js:63-65).
Init ==
    /\ configuration = DefaultConfiguration
    /\ docs = InitialDocs
    /\ classified = NoClassification
    /\ activeTextEditor \in FileNames \cup {NoEditor}
    /\ LET st0 == [isActive |-> TRUE, packageWatcher |-> {},
                   emitters |-> [f \in FileNames |-> 0],
                   sessions |-> [f \in FileNames |-> <<>>],
                   watches |-> 0,
                   diagnostics |-> {}, trace |-> <<>>,
                   threw |-> FALSE, dirtyProcessed |-> {},
                   authed |-> FALSE, pendingAuth |-> <<>>]
           st == IF activeTextEditor # NoEditor /\ st0.isActive
                 THEN processActiveFile(st0,
                          [fileName |-> activeTextEditor,
                           languageId |-> InitialDocs[activeTextEditor].languageId,
                           isDirty |-> FALSE])
                 ELSE st0
       IN  /\ isActive = st.isActive
           /\ packageWatcher = st.packageWatcher
           /\ emitters = st.emitters
           /\ sessions = st.sessions
           /\ watches = st.watches
           /\ diagnostics = st.diagnostics
           /\ trace = st.trace
           /\ threw = st.threw
           /\ dirtyProcessed = st.dirtyProcessed
           /\ authed = st.authed
           /\ pendingAuth = st.pendingAuth

\* The handler has returned (or thrown) and the event loop takes over
ReturnToEventLoop ==
    /\ trace # <<>> \/ threw
    /\ trace' = <<>>
    /\ threw' = FALSE
    /\ UNCHANGED <<isActive, packageWatcher, emitters, sessions, watches, diagnostics,
                   docs, activeTextEditor, configuration, dirtyProcessed, classified,
                   authed, pendingAuth>>

\* workspace.onDidChangeTextDocument: extension.js:57-59.  The host fires it
\* when the text or the dirty state of a document changes.
onDidChangeTextDocument(f, dirty) ==
    /\ dirty => f \in DirtyFiles
    /\ LET document == [fileName |-> f, languageId |-> docs[f].languageId, isDirty |-> dirty]
       IN  /\ docs' = [docs EXCEPT ![f].isDirty = dirty]
           /\ Apply(IF isActive
                    THEN processActiveFile(EnterOn(State, "onDidChangeTextDocument", f), document)
                    ELSE EnterOn(State, "onDidChangeTextDocument", f))
           /\ UNCHANGED <<activeTextEditor, configuration, classified>>

onDidChangeActiveTextEditorIgnoresActive(e) ==
    /\ e # activeTextEditor
    /\ activeTextEditor' = e
    /\ Apply(IF e # NoEditor
             THEN processActiveFile(EnterOn(State, "onDidChangeActiveTextEditor", e), Document(e))
             ELSE EnterOn(State, "onDidChangeActiveTextEditor", e))
    /\ UNCHANGED <<docs, configuration, classified>>

\* window.onDidChangeActiveTextEditor: extension.js:60-62.  ev is undefined
\* when the last editor closes.
onDidChangeActiveTextEditor(e) ==
    /\ e # activeTextEditor
    /\ activeTextEditor' = e
    /\ Apply(IF e # NoEditor /\ isActive
             THEN processActiveFile(EnterOn(State, "onDidChangeActiveTextEditor", e), Document(e))
             ELSE EnterOn(State, "onDidChangeActiveTextEditor", e))
    /\ UNCHANGED <<docs, configuration, classified>>

\* The user changes the language mode of a document; no subscribed event fires.
SetLanguageMode(f, l) ==
    /\ docs[f].languageId # l
    /\ docs' = [docs EXCEPT ![f].languageId = l]
    /\ Apply(State)
    /\ UNCHANGED <<activeTextEditor, configuration, classified>>

Check ==
    /\ Apply(vulnCost_check(State))
    /\ UNCHANGED <<docs, activeTextEditor, configuration, classified>>

Toggle ==
    /\ Apply(vulnCost_toggle(State))
    /\ UNCHANGED <<docs, activeTextEditor, configuration, classified>>

ShowOutput(vuln) ==
    /\ Apply(vulnCost_showOutput(State, vuln))
    /\ UNCHANGED <<docs, activeTextEditor, configuration, classified>>

WatcherChange(p) ==
    /\ p \in packageWatcher
    /\ Apply(onDidChange(State))
    /\ UNCHANGED <<docs, activeTextEditor, configuration, classified>>

SignOut ==
    /\ Apply(vulnCost_signOut(State))
    /\ UNCHANGED <<docs, activeTextEditor, configuration, classified>>

SignIn ==
    /\ Apply(vulnCost_signIn(State))
    /\ UNCHANGED <<docs, activeTextEditor, configuration, classified>>

OpenVulnPage(pkg) ==
    /\ Apply(vulnCost_openVulnPage(State, pkg))
    /\ UNCHANGED <<docs, activeTextEditor, configuration, classified>>

\* authenticate(token) is fulfilled for the flow i
AuthFulfilled(i) ==
    /\ i \in 1..Len(pendingAuth)
    /\ Apply(authenticateThen(State, i))
    /\ UNCHANGED <<docs, activeTextEditor, configuration, classified>>

\* authenticate(token) is rejected for the flow i
AuthRejected(i) ==
    /\ i \in 1..Len(pendingAuth)
    /\ Apply(authenticateCatch(State, i))
    /\ UNCHANGED <<docs, activeTextEditor, configuration, classified>>

\* The analysis engine behind a session emits ev.  start precedes calculated,
\* done follows every calculated; the other events come at any time.
CanEmit(sess, ev) ==
    CASE ~sess.attached -> TRUE
      [] ev = "start" -> sess.phase = "created"
      [] ev = "calculated" -> sess.phase = "started" /\ sess.lang # YAML /\ sess.ncalc < MaxCalculated
      [] ev = "done" -> sess.phase = "started" /\ sess.lang # YAML
      [] ev = "calculatedIaC" -> sess.lang = YAML /\ sess.niac < MaxIaC
      [] OTHER -> TRUE

Payload(ev) ==
    CASE ev = "start" -> "unresolved"
      [] ev = "calculated" -> "lodash"
      [] ev = "done" -> "resolved"
      [] ev = "calculatedIaC" -> "issue"
      [] OTHER -> ""

Emitted(st, f, sid, ev, path) ==
    LET s1 == [st EXCEPT !.trace =
                  Append(@, [Call("emit", f, ev, FALSE, sid) EXCEPT !.path = path])]
    IN  CASE ~st.sessions[f][sid].attached -> s1
          [] ev = "start" -> [s1 EXCEPT !.sessions[f][sid].phase = "started"]
          [] ev = "calculated" -> [s1 EXCEPT !.sessions[f][sid].ncalc = @ + 1]
          [] ev = "done" -> [s1 EXCEPT !.sessions[f][sid].phase = "done"]
          [] ev = "calculatedIaC" -> [s1 EXCEPT !.sessions[f][sid].niac = @ + 1]
          [] OTHER -> s1

Events == {"error", "package", "start", "calculated", "done", "calculatedIaC"}

SessionEmit(f, sid, ev, path) ==
    /\ sid \in 1..Len(sessions[f])
    /\ CanEmit(sessions[f][sid], ev)
    /\ Apply(Dispatch(Emitted(State, f, sid, ev, path), f, sid, ev, Payload(ev), path))
    /\ UNCHANGED <<docs, activeTextEditor, configuration, classified>>

Next ==
    \/ \E f \in FileNames, dirty \in BOOLEAN : onDidChangeTextDocument(f, dirty)
    \/ \E e \in FileNames \cup {NoEditor} : onDidChangeActiveTextEditor(e)
    \/ \E f \in ModeFiles, l \in ModeIds : SetLanguageMode(f, l)
    \/ Check
    \/ Toggle
    \/ \E vuln \in {Undefined, "lodash"} : ShowOutput(vuln)
    \/ \E p \in RootManifest : WatcherChange(p)
    \/ \E f \in FileNames, sid \in 1..MaxSessions, ev \in Events \ {"package"} :
          SessionEmit(f, sid, ev, <<>>)
    \/ \E f \in FileNames, sid \in 1..MaxSessions, path \in RootManifest :
          SessionEmit(f, sid, "package", path)
    \/ ReturnToEventLoop

Spec == Init /\ [][Next]_vars

----------------------------------------------------------------------------
\* language() on its own: the host edits the configuration section and hands
\* documents to language().

ClassifyFileNames ==
    {<<"a", ".ts">>, <<"a", ".js">>, <<"index", ".html">>, <<"package", ".json">>,
     <<"my", "package", ".json">>, <<"package", ".json", ".bak">>,
     <<"k8s", ".yaml">>, <<"notes", ".txt">>}

ClassifyLanguageIds ==
    {"typescript", "typescriptreact", "javascript", "javascriptreact", "html",
     "json", "yaml", "plaintext"}

ClassifyDocuments ==
    [fileName : ClassifyFileNames, languageId : ClassifyLanguageIds, isDirty : {FALSE}]

\* The default patterns; patterns that overlap (one extension accepted by
\* several categories); an empty TypeScript list; an empty HTML list.
Configurations ==
    {DefaultConfiguration,
     [typescriptExtensions |-> << {".ts"}, {".tsx", ".js"} >>,
      javascriptExtensions |-> << {".js", ".html"} >>,
      htmlExtensions |-> << {".html", ".json"} >>,
      infrastructureAsCodeExtensions |-> << {".yaml", ".json", ".ts"} >>],
     [DefaultConfiguration EXCEPT !.typescriptExtensions = <<>>],
     [DefaultConfiguration EXCEPT !.htmlExtensions = <<>>]}

Configure(cfg) ==
    /\ cfg # configuration
    /\ configuration' = cfg
    /\ UNCHANGED <<isActive, packageWatcher, emitters, sessions, watches, diagnostics,
                   docs, activeTextEditor, trace, threw, dirtyProcessed, classified,
                   authed, pendingAuth>>

Classify(document) ==
    /\ classified' = [document |-> document, cfg |-> configuration,
                      result |-> language(configuration, document)]
    /\ UNCHANGED <<isActive, packageWatcher, emitters, sessions, watches, diagnostics,
                   docs, activeTextEditor, configuration, trace, threw, dirtyProcessed,
                   authed, pendingAuth>>

NextClassify ==
    \/ \E cfg \in Configurations : Configure(cfg)
    \/ \E document \in ClassifyDocuments : Classify(document)

SpecClassify == Init /\ [][NextClassify]_vars

----------------------------------------------------------------------------
\* The commands and the sign-in flow: the user opens and closes editors and
\* invokes the commands while sign-in flows are under way.

NextCommands ==
    \/ \E e \in FileNames \cup {NoEditor} : onDidChangeActiveTextEditor(e)
    \/ \E f \in ModeFiles, l \in ModeIds : SetLanguageMode(f, l)
    \/ Check
    \/ Toggle
    \/ \E vuln \in {Undefined, "lodash"} : ShowOutput(vuln)
    \/ SignOut
    \/ SignIn
    \/ \E pkg \in {"lodash"} : OpenVulnPage(pkg)
    \/ \E i \in 1..MaxPending : AuthFulfilled(i)
    \/ \E i \in 1..MaxPending : AuthRejected(i)
    \/ ReturnToEventLoop

SpecCommands == Init /\ [][NextCommands]_vars

----------------------------------------------------------------------------
\* The watcher registry on its own: documents are opened, their sessions
\* report manifests, and the watched manifests change.

NextWatchers ==
    \/ \E e \in FileNames \cup {NoEditor} : onDidChangeActiveTextEditor(e)
    \/ \E f \in FileNames, sid \in 1..MaxSessions, path \in ManifestPaths :
          SessionEmit(f, sid, "package", path)
    \/ \E p \in ManifestPaths : WatcherChange(p)
    \/ ReturnToEventLoop

SpecWatchers == Init /\ [][NextWatchers]_vars

----------------------------------------------------------------------------
\* Properties

Idx == DOMAIN trace

\* the handler that ran last
Handler == IF trace # <<>> /\ trace[1].op = "enter" THEN trace[1].arg ELSE ""

\* the last step was the event ev of session (f, sid)
EmitOf(f, sid, ev) ==
    /\ trace # <<>>
    /\ trace[1].op = "emit" /\ trace[1].f = f /\ trace[1].sid = sid /\ trace[1].arg = ev

Called(op) == \E i \in Idx : trace[i].op = op

CalledOn(op, f) == \E i \in Idx : trace[i].op = op /\ trace[i].f = f

RenderOps ==
    {"flushDecorations", "calculated", "refreshDiagnostics", "flushIaCDecorations",
     "calculatedIaC"}

\* processActiveFile would start a session for the document
Analysable(document) ==
    /\ language(configuration, document) # Undefined
    /\ ~(language(configuration, document) = YAML /\ document.isDirty)

\* C1: Only the registered (most recently created) session of a path has
\* listeners; an event of a superseded session reaches no collaborator at all;
\* and inside processActiveFile the old session's removeAllListeners comes
\* before the new session is stored, which comes before the .on() calls.
C1_OnlyCurrentSessionObserved ==
    /\ \A f \in FileNames : \A g \in 1..Len(sessions[f]) :
          sessions[f][g].attached => emitters[f] = g
    /\ (trace # <<>> /\ trace[1].op = "emit" /\ trace[1].sid # emitters[trace[1].f])
          => Len(trace) = 1
    /\ \A i \in Idx : trace[i].op = "getImports" =>
          /\ trace[i].sid > 1 =>
                \E j \in 1..(i - 1) :
                   /\ trace[j].op = "removeAllListeners"
                   /\ trace[j].f = trace[i].f
                   /\ trace[j].sid = trace[i].sid - 1
          /\ \A j \in Idx :
                (trace[j].op = "on" /\ trace[j].f = trace[i].f) => j > i

\* a superseded session has emitted an event and nothing was called
C1_Witness ==
    /\ trace # <<>>
    /\ trace[1].op = "emit"
    /\ trace[1].arg = "done"
    /\ trace[1].sid < emitters[trace[1].f]
    /\ sessions[trace[1].f][emitters[trace[1].f]].phase = "started"

\* C2: While the last processing of a path took the dirty-infrastructure
\* branch, no listener of any session routes a start or calculatedIaC event
\* of that path to the diagnostics or decoration collaborators.
C2_DirtyInfrastructureSilent ==
    \A i \in Idx :
       (trace[i].sid # 0 /\
        trace[i].op \in {"diagnostics.clear", "flushIaCDecorations", "calculatedIaC"})
          => trace[i].f \notin dirtyProcessed

\* C3: While the Active flag is false no listener calls a decoration or
\* diagnostics collaborator.
C3_SuppressedSilent ==
    ~isActive => \A i \in Idx : trace[i].sid # 0 => trace[i].op \notin RenderOps

\* C4: Whenever the vulnCost.check handler runs (directly or from another
\* handler, Active or Suppressed), its first two calls are clearPackageCache
\* and clearShown, and with an editor open the next one is processActiveFile
\* on the editor's document.
C4_RecheckClearsFirst ==
    \A i \in Idx : (trace[i].op = "enter" /\ trace[i].arg = "vulnCost.check") =>
       /\ Len(trace) >= i + 2
       /\ trace[i + 1].op = "clearPackageCache"
       /\ trace[i + 2].op = "clearShown"
       /\ \A j \in Idx : (j > i /\ trace[j].op = "processActiveFile") => j = i + 3
       /\ activeTextEditor # NoEditor =>
             /\ Len(trace) >= i + 3
             /\ trace[i + 3].op = "processActiveFile"
             /\ trace[i + 3].f = activeTextEditor

\* the recheck ran while Suppressed and started a session
C4_Witness ==
    /\ Handler = "vulnCost.check"
    /\ ~isActive
    /\ Called("getImports")

\* C5 as stated: a watcher change clears cache and suppression state, starts
\* a session for the active document when Active with an editor open, and
\* otherwise creates and detaches nothing.
C5_WatcherChangeStartsSession ==
    Handler = "watcher.onDidChange" =>
       /\ Called("clearPackageCache") /\ Called("clearShown")
       /\ IF isActive /\ activeTextEditor # NoEditor
          THEN CalledOn("getImports", activeTextEditor)
          ELSE ~Called("getImports") /\ ~Called("removeAllListeners")

\* C5 amended: ... starts a session for the active document when Active with
\* an editor open and the document is analysable (classified, and not a dirty
\* infrastructure document); in every other case no session is created or
\* detached.
C5_WatcherChangeRechecks ==
    Handler = "watcher.onDidChange" =>
       /\ Called("clearPackageCache") /\ Called("clearShown")
       /\ IF isActive /\ activeTextEditor # NoEditor
          THEN /\ CalledOn("processActiveFile", activeTextEditor)
               /\ IF Analysable(Document(activeTextEditor))
                  THEN /\ CalledOn("getImports", activeTextEditor)
                       /\ emitters[activeTextEditor] = Len(sessions[activeTextEditor])
                       /\ sessions[activeTextEditor][emitters[activeTextEditor]].attached
                  ELSE ~Called("getImports") /\ ~Called("removeAllListeners")
          ELSE /\ ~Called("processActiveFile")
               /\ ~Called("getImports") /\ ~Called("removeAllListeners")

C5_Witness ==
    /\ Handler = "watcher.onDidChange"
    /\ isActive
    /\ activeTextEditor # NoEditor
    /\ CalledOn("getImports", activeTextEditor)
    /\ Called("removeAllListeners")

\* C6: The number of file-system watches created equals the number of paths
\* in the watcher registry, and a package event for a path that is already
\* watched leaves the registry and the number of watches unchanged.
C6_WatcherIdempotent ==
    /\ [](watches = Cardinality(packageWatcher))
    /\ [][(/\ trace' # <<>>
           /\ trace'[1].op = "emit" /\ trace'[1].arg = "package"
           /\ Len(trace') >= 2
           /\ trace'[2].f \in packageWatcher)
             => (/\ packageWatcher' = packageWatcher
                 /\ watches' = watches
                 /\ trace'[2].op = "console.log")]_vars

\* every manifest path is watched and one of them was just registered again
C6_Witness ==
    /\ packageWatcher = ManifestPaths
    /\ watches = Cardinality(ManifestPaths)
    /\ Called("console.log")

ExpectedRouted(f, g, phase, n) ==
    LET start == << Call("flushDecorations", f, "unresolved", FALSE, g) >>
        calc == [k \in 1..n |-> Call("calculated", f, "lodash", FALSE, g)]
        done == << Call("flushDecorations", f, "resolved", TRUE, g),
                   Call("refreshDiagnostics", f, "resolved", FALSE, g) >>
    IN  CASE phase = "created" -> <<>>
          [] phase = "started" -> start \o calc
          [] phase = "done" -> start \o calc \o done

\* C8: For the registered session of a script or markup document the calls
\* of its listeners are, in order: flushDecorations with the unresolved list
\* for start, one calculated per calculated event, and for done
\* flushDecorations with the final list marked final followed by
\* refreshDiagnostics with the same list.
C8_RoutingOrder ==
    \A f \in FileNames : \A g \in 1..Len(sessions[f]) :
       (sessions[f][g].attached /\ sessions[f][g].lang # YAML) =>
          sessions[f][g].routed =
             ExpectedRouted(f, g, sessions[f][g].phase, sessions[f][g].ncalc)

\* a script session has just emitted done after a calculated event
C8_Witness ==
    \E f \in FileNames : \E g \in 1..Len(sessions[f]) :
       /\ EmitOf(f, g, "done")
       /\ sessions[f][g].attached
       /\ sessions[f][g].ncalc >= 1
       /\ Len(sessions[f][g].routed) = 4

\* C9 as stated: a toggle flips the flag; entering Suppressed calls
\* clearDecorations; entering Active with an editor open calls
\* processActiveFile on the editor's document, which creates a fresh session
\* with listeners, and clears neither the cache nor the suppression state.
C9_ToggleCreatesSession ==
    [][(trace' # <<>> /\ trace'[1].op = "enter" /\ trace'[1].arg = "vulnCost.toggle") =>
         /\ isActive' = ~isActive
         /\ ~isActive' => \E i \in DOMAIN trace' : trace'[i].op = "clearDecorations"
         /\ (isActive' /\ activeTextEditor # NoEditor) =>
               /\ \E i \in DOMAIN trace' :
                     trace'[i].op = "processActiveFile" /\ trace'[i].f = activeTextEditor
               /\ \A i \in DOMAIN trace' :
                     trace'[i].op \notin {"clearPackageCache", "clearShown"}
               /\ Len(sessions'[activeTextEditor]) = Len(sessions[activeTextEditor]) + 1
               /\ emitters'[activeTextEditor] = Len(sessions'[activeTextEditor])
               /\ sessions'[activeTextEditor][emitters'[activeTextEditor]].attached]_vars

\* C9 amended: ... calls processActiveFile on the editor's document, which
\* creates a fresh session with listeners when the document is analysable
\* (classified, and not a dirty infrastructure document) ...
C9_ToggleReprocesses ==
    [][(trace' # <<>> /\ trace'[1].op = "enter" /\ trace'[1].arg = "vulnCost.toggle") =>
         /\ isActive' = ~isActive
         /\ ~isActive' => \E i \in DOMAIN trace' : trace'[i].op = "clearDecorations"
         /\ (isActive' /\ activeTextEditor # NoEditor) =>
               /\ \E i \in DOMAIN trace' :
                     trace'[i].op = "processActiveFile" /\ trace'[i].f = activeTextEditor
               /\ \A i \in DOMAIN trace' :
                     trace'[i].op \notin {"clearPackageCache", "clearShown"}
               /\ Analysable(Document(activeTextEditor)) =>
                     /\ Len(sessions'[activeTextEditor]) = Len(sessions[activeTextEditor]) + 1
                     /\ emitters'[activeTextEditor] = Len(sessions'[activeTextEditor])
                     /\ sessions'[activeTextEditor][emitters'[activeTextEditor]].attached]_vars

\* the toggle back to Active has replaced the session of the open document
C9_Witness ==
    /\ Handler = "vulnCost.toggle"
    /\ isActive
    /\ activeTextEditor # NoEditor
    /\ CalledOn("getImports", activeTextEditor)
    /\ CalledOn("removeAllListeners", activeTextEditor)

\* C10: vulnCost.showOutput completes without an exception; without an item
\* it reveals the log (logger.show), with an item it flushes the item's
\* report (logger.flushWith).
C10_ShowOutputCompletes ==
    Handler = "vulnCost.showOutput" =>
       /\ ~threw
       /\ Called("logger.show") \/ Called("logger.flushWith")

\* the user commands
Commands ==
    {"vulnCost.check", "vulnCost.toggle", "vulnCost.showOutput", "vulnCost.signOut",
     "vulnCost.signIn", "vulnCost.openVulnPage"}

\* C11: Every invocation of a command is followed, in the same handler, by a
\* statistics.send for that command, and vulnCost.showOutput does not end
\* with an exception.
C11_EveryCommandSendsTelemetry ==
    \A i \in Idx : (trace[i].op = "enter" /\ trace[i].arg \in Commands) =>
       /\ \E j \in Idx :
             j > i /\ trace[j].op = "statistics.send" /\ trace[j].arg = trace[i].arg
       /\ trace[i].arg = "vulnCost.showOutput" => ~threw

\* C12: vulnCost.check invoked with no editor open clears the cache and the
\* suppression state, creates no session and does not throw.
C12_RecheckWithoutEditor ==
    (Handler = "vulnCost.check" /\ activeTextEditor = NoEditor) =>
       /\ Called("clearPackageCache") /\ Called("clearShown")
       /\ ~Called("getImports")
       /\ ~threw

\* the package event of the registered session (f, g) was handed to
\* createPackageWatcher, and its path is watched
Forwarded(f, g) ==
    /\ Len(trace) = 2
    /\ trace[2].op \in {"createFileSystemWatcher", "console.log"}
    /\ trace[2].f = trace[1].path
    /\ trace[1].path \in packageWatcher

\* C13 as stated: every package event of a registered session, whatever its
\* category, is forwarded to createPackageWatcher and its path is watched.
C13_PackageForwardedAnyCategory ==
    \A f \in FileNames : \A g \in 1..Len(sessions[f]) :
       (EmitOf(f, g, "package") /\ sessions[f][g].attached) => Forwarded(f, g)

\* C13 amended: every package event of a registered session of a script,
\* markup or manifest category is forwarded to createPackageWatcher and its
\* path is watched.
C13_PackageForwarded ==
    \A f \in FileNames : \A g \in 1..Len(sessions[f]) :
       (EmitOf(f, g, "package") /\ sessions[f][g].attached /\ sessions[f][g].lang # YAML)
          => Forwarded(f, g)

\* a script session has reported a second manifest, which got its watch
C13_Witness ==
    \E f \in FileNames : \E g \in 1..Len(sessions[f]) :
       /\ EmitOf(f, g, "package")
       /\ sessions[f][g].attached
       /\ Forwarded(f, g)
       /\ trace[2].op = "createFileSystemWatcher"
       /\ Cardinality(packageWatcher) = 2

\* C14: After processActiveFile has run on a document that classifies as
\* Inapplicable, no session of that path has listeners.
C14_InapplicableDetaches ==
    \A f \in FileNames :
       (CalledOn("processActiveFile", f) /\ language(configuration, Document(f)) = Undefined)
          => \A g \in 1..Len(sessions[f]) : ~sessions[f][g].attached

\* C15: A handler that calls diagnostics.clear for the path P (the start
\* listener of an infrastructure session, or processActiveFile on a dirty
\* infrastructure document) leaves the diagnostics of every other path as
\* they were.
C15_ClearScopedToPath ==
    [][\A i \in DOMAIN trace' :
          (trace # trace' /\ trace'[i].op = "diagnostics.clear") =>
             \A q \in FileNames \ {trace'[i].f} :
                (q \in diagnostics') <=> (q \in diagnostics)]_vars

\* C16: The success callback of a sign-in flow stores the token and runs the
\* recheck exactly when, at that moment, the pipeline is Active and an editor
\* is open; when it is Suppressed no session is created or detached.  Neither
\* vulnCost.signIn nor its callbacks change the Active flag, and the failure
\* callback changes neither the token nor the sessions.
C16_SignInRechecksIfActive ==
    [][(trace # trace' /\ trace' # <<>> /\ trace'[1].op = "enter") =>
         /\ trace'[1].arg = "authenticate.then" =>
               /\ authed'
               /\ \E i \in DOMAIN trace' : trace'[i].op = "setToken"
               /\ isActive' = isActive
               /\ (\E i \in DOMAIN trace' :
                      trace'[i].op = "enter" /\ trace'[i].arg = "vulnCost.check")
                     <=> (isActive /\ activeTextEditor # NoEditor)
               /\ ~isActive => (sessions' = sessions /\ emitters' = emitters)
         /\ trace'[1].arg = "authenticate.catch" =>
               /\ isActive' = isActive /\ authed' = authed
               /\ sessions' = sessions /\ emitters' = emitters
         /\ trace'[1].arg = "vulnCost.signIn" =>
               /\ isActive' = isActive
               /\ sessions' = sessions /\ emitters' = emitters]_vars

\* a flow requested while Active succeeds after a toggle to Suppressed, with
\* an editor open: the token is stored and there is no recheck
C16_Witness ==
    /\ Handler = "authenticate.then"
    /\ trace[2].arg = "requested while Active"
    /\ ~isActive
    /\ activeTextEditor # NoEditor
    /\ authed
    /\ ~Called("clearPackageCache")

\* C17: An error event changes nothing but the log: the registries, the
\* sessions and their listeners, the Active flag and the diagnostics stay as
\* they are and the listener's only call is logger.log; and every start,
\* calculated, done or calculatedIaC event of a session that has listeners
\* for it is routed to a rendering collaborator.
C17_ErrorOnlyLogged ==
    /\ [][(trace # trace' /\ trace' # <<>> /\ trace'[1].op = "emit"
            /\ trace'[1].arg = "error") =>
             /\ UNCHANGED <<emitters, sessions, isActive, packageWatcher, watches,
                            diagnostics>>
             /\ sessions[trace'[1].f][trace'[1].sid].attached =>
                   /\ Len(trace') = 2
                   /\ trace'[2].op = "logger.log"]_vars
    /\ [](\A f \in FileNames : \A g \in 1..Len(sessions[f]) :
            (/\ sessions[f][g].attached
             /\ trace # <<>> /\ trace[1].op = "emit" /\ trace[1].f = f /\ trace[1].sid = g
             /\ trace[1].arg \in (IF sessions[f][g].lang = YAML
                                    THEN {"start", "calculatedIaC"}
                                    ELSE {"start", "calculated", "done"}))
               => /\ Len(trace) >= 2
                  /\ trace[Len(trace)].op \in RenderOps
                  /\ trace[Len(trace)].sid = g /\ trace[Len(trace)].f = f)

\* a session that has started reports an error and keeps its listeners
C17_Witness ==
    \E f \in FileNames : \E g \in 1..Len(sessions[f]) :
       /\ EmitOf(f, g, "error")
       /\ Len(trace) = 2 /\ trace[2].op = "logger.log"
       /\ sessions[f][g].attached
       /\ sessions[f][g].phase = "started"
       /\ emitters[f] = g

EditorHandlers == {"onDidChangeTextDocument", "onDidChangeActiveTextEditor"}

\* C18: An editor event received while Suppressed calls nothing and leaves
\* the session registry, the watcher registry and the diagnostics unchanged;
\* received while Active with a document, it calls processActiveFile exactly
\* once, on the event's document.
C18_EditorEventsGated ==
    [][(trace # trace' /\ trace' # <<>> /\ trace'[1].op = "enter"
        /\ trace'[1].arg \in EditorHandlers) =>
         IF ~isActive
         THEN /\ Len(trace') = 1
              /\ UNCHANGED <<emitters, sessions, packageWatcher, watches, diagnostics,
                             isActive>>
         ELSE trace'[1].f # NoEditor =>
                /\ Cardinality({i \in DOMAIN trace' : trace'[i].op = "processActiveFile"}) = 1
                /\ \E i \in DOMAIN trace' :
                      trace'[i].op = "processActiveFile" /\ trace'[i].f = trace'[1].f]_vars

\* while Suppressed the user has switched to a document that owns a session
C18_Witness ==
    /\ Handler = "onDidChangeActiveTextEditor"
    /\ ~isActive
    /\ trace[1].f # NoEditor
    /\ emitters[trace[1].f] # 0
    /\ sessions[trace[1].f][emitters[trace[1].f]].attached

====
